---- MODULE Spec2Model ----
(***************************************************************************)
(* Model of xmlrecords.py: flattening of an ElementTree document into a    *)
(* list of records (parse) and the check of the records' keys (validate).  *)
(*                                                                         *)
(* Representation of the Python values:                                    *)
(*   str          a sequence of one-character strings, "ab" is <<"a","b">> *)
(*   Optional[T]  <<>> for None, <<v>> for a value v                       *)
(*   dict         a sequence of <<key, value>> pairs with distinct keys,   *)
(*                in insertion order (Python dicts keep insertion order)   *)
(*   Element      [tag, text, attrib, children]: tag a str in the form     *)
(*                ElementTree gives it ("{uri}local" or "local"), text an  *)
(*                Optional[str], attrib a dict, children a sequence        *)
(*   an exception the err field of a result: "none" when nothing is raised *)
(***************************************************************************)
EXTENDS Naturals, Sequences, FiniteSets, TLC

VARIABLES tree, cfg,                  \* parse: the parsed document and the other arguments
          pc,                         \* where the call in progress stands
          meta_d, mi,                 \* parse: meta_d, and the index of m_path in meta_paths
          row_nodes, ri, row_d,       \* parse: row_nodes, the index of r_node, row_d
          subrow_nodes, si,           \* parse: subrow_nodes, the index of sr_node
          records,                    \* parse: records
          result,                     \* parse: the value returned (None until it returns)
          error,                      \* the exception raised, if any
          v_records, expected_keys,   \* validate: its arguments
          vi,                         \* validate: the index of r in records, from 1
          call, ret                   \* a call of one of the helpers: its arguments, its result

vars == <<tree, cfg, pc, meta_d, mi, row_nodes, ri, row_d, subrow_nodes, si,
          records, result, error, v_records, expected_keys, vi, call, ret>>

None == <<>>
Some(v) == <<v>>
Val(o) == o[1]

(* ------------------------------ str ----------------------------------- *)

Whitespace == {" ", "\n"}

RECURSIVE lstrip(_)
lstrip(s) == IF s # <<>> /\ Head(s) \in Whitespace THEN lstrip(Tail(s)) ELSE s

RECURSIVE rstrip(_)
rstrip(s) == IF s # <<>> /\ s[Len(s)] \in Whitespace THEN rstrip(SubSeq(s, 1, Len(s) - 1)) ELSE s

\* a strip that forgets the trailing whitespace
strip_leading_only(s) == lstrip(s)

\* str.strip(): leading and trailing whitespace removed
strip(s) == rstrip(lstrip(s))

HasChar(s, c) == \E i \in 1..Len(s) : s[i] = c

LastIndex(s, c) ==
    LET I == {i \in 1..Len(s) : s[i] = c}
    IN  IF I = {} THEN 0 ELSE CHOOSE i \in I : \A j \in I : j <= i

FirstIndex(s, c) ==
    LET I == {i \in 1..Len(s) : s[i] = c}
    IN  IF I = {} THEN 0 ELSE CHOOSE i \in I : \A j \in I : i <= j

\* str.rpartition(c): <<before, c, after>> around the last c, <<"", "", s>> without one
rpartition(s, c) ==
    LET i == LastIndex(s, c)
    IN  IF i = 0 THEN <<<<>>, <<>>, s>>
        ELSE <<SubSeq(s, 1, i - 1), <<c>>, SubSeq(s, i + 1, Len(s))>>

\* sep.join(chunks)
RECURSIVE join(_, _)
join(sep, chunks) ==
    IF chunks = <<>> THEN <<>>
    ELSE IF Len(chunks) = 1 THEN chunks[1]
    ELSE chunks[1] \o sep \o join(sep, Tail(chunks))

\* s.split(c)
RECURSIVE split(_, _)
split(s, c) ==
    LET i == FirstIndex(s, c)
    IN  IF i = 0 THEN <<s>>
        ELSE <<SubSeq(s, 1, i - 1)>> \o split(SubSeq(s, i + 1, Len(s)), c)

(* ------------------------------ dict ---------------------------------- *)

\* list(d.keys())
keys(d) == [i \in 1..Len(d) |-> d[i][1]]

\* set(d.keys())
KeySet(d) == {d[i][1] : i \in 1..Len(d)}

\* d[k] = v: a key the dict holds keeps its place and takes the new value
SetItem(d, k, v) ==
    IF k \in KeySet(d)
    THEN [i \in 1..Len(d) |-> IF d[i][1] = k THEN <<k, v>> ELSE d[i]]
    ELSE Append(d, <<k, v>>)

\* d1.update(d2)
RECURSIVE update(_, _)
update(d1, d2) ==
    IF d2 = <<>> THEN d1
    ELSE update(SetItem(d1, d2[1][1], d2[1][2]), Tail(d2))

\* a dict display or comprehension: the items are set in order on an empty dict
DictOf(items) == update(<<>>, items)

Ok(d) == [d |-> d, err |-> "none", common_keys |-> {}]
Fail(d, e) == [d |-> d, err |-> e, common_keys |-> {}]

(* ------------------------- the flattening ----------------------------- *)

\* a merge that lets the later value win
update_dict_overwriting(d1, d2) == Ok(update(d1, d2))

_update_dict_nocollision(d1, d2) ==
    LET expected_length == Len(d1) + Len(d2)
        u == update(d1, d2)
    IN  IF Len(u) # expected_length
        THEN [d |-> u, err |-> "XMLParsingError", common_keys |-> KeySet(u) \cap KeySet(d2)]
        ELSE Ok(u)

_process_tag(tag, remove_namespace) ==
    IF remove_namespace
    THEN LET t == rpartition(tag, "}")[3]
         IN  IF HasChar(t, "{") \/ HasChar(t, "}")
             THEN [tag |-> t, err |-> "AssertionError"]
             ELSE [tag |-> t, err |-> "none"]
    ELSE [tag |-> tag, err |-> "none"]

\* lines 46-50: the node's text
TextEntry(d, node, prefix, strip_, rm_namespace) ==
    IF node.text # None
    THEN LET text == IF strip_ THEN strip(Val(node.text)) ELSE Val(node.text)
         IN  IF Len(text) > 0
             THEN IF prefix = None
                  THEN LET p == _process_tag(node.tag, rm_namespace)
                       IN  IF p.err # "none" THEN Fail(d, p.err)
                           ELSE _update_dict_nocollision(d, DictOf(<<<<p.tag, text>>>>))
                  ELSE _update_dict_nocollision(d, DictOf(<<<<Val(prefix), text>>>>))
             ELSE Ok(d)
    ELSE Ok(d)

\* line 53: the key of attribute k
AttribKey(prefix, sep, k) == IF prefix = None THEN k ELSE Val(prefix) \o sep \o k

\* lines 51-54: the node's attributes
AttribEntries(d, node, prefix, sep) ==
    IF Len(node.attrib) > 0
    THEN _update_dict_nocollision(d,
            DictOf([i \in 1..Len(node.attrib) |->
                      <<AttribKey(prefix, sep, node.attrib[i][1]), node.attrib[i][2]>>]))
    ELSE Ok(d)

\* line 55: whether the children are visited
Descends(max_depth, node) ==
    ((max_depth = None) \/ (Val(max_depth) > 0)) /\ Len(node.children) > 0

\* a depth that is never counted down
SameDepth(max_depth) == max_depth

\* line 56
NextDepth(max_depth) == IF max_depth = None THEN max_depth ELSE Some(Val(max_depth) - 1)

\* line 59: whether the child with processed tag ctag is visited
VisitsChild(ctag, skip_child_tag) == (skip_child_tag = None) \/ (ctag # Val(skip_child_tag))

\* line 60
ChildPrefix(prefix, sep, ctag) == IF prefix = None THEN None ELSE Some(Val(prefix) \o sep \o ctag)

RECURSIVE _update_dict_from_node(_, _, _, _, _, _, _, _)
RECURSIVE ChildLoop(_, _, _, _, _, _, _, _, _)

\* lines 57-61: the loop over the children, from child i on; r is the result so far
ChildLoop(r, children, i, prefix, sep, max_depth, strip_, rm_namespace, skip_child_tag) ==
    IF r.err # "none" \/ i > Len(children) THEN r
    ELSE LET child == children[i]
             p == _process_tag(child.tag, rm_namespace)
         IN  IF p.err # "none" THEN Fail(r.d, p.err)
             ELSE IF VisitsChild(p.tag, skip_child_tag)
             THEN ChildLoop(
                    _update_dict_from_node(r.d, child, ChildPrefix(prefix, sep, p.tag), sep,
                                           max_depth, strip_, rm_namespace, None),
                    children, i + 1, prefix, sep, max_depth, strip_, rm_namespace, skip_child_tag)
             ELSE ChildLoop(r, children, i + 1, prefix, sep, max_depth, strip_, rm_namespace,
                            skip_child_tag)

_update_dict_from_node(d, node, prefix, sep, max_depth, strip_, rm_namespace, skip_child_tag) ==
    LET r1 == TextEntry(d, node, prefix, strip_, rm_namespace)
    IN  IF r1.err # "none" THEN r1
        ELSE LET r2 == AttribEntries(r1.d, node, prefix, sep)
             IN  IF r2.err # "none" THEN r2
                 ELSE IF Descends(max_depth, node)
                 THEN ChildLoop(r2, node.children, 1, prefix, sep, NextDepth(max_depth),
                                strip_, rm_namespace, skip_child_tag)
                 ELSE r2

(* ------------------------------ paths --------------------------------- *)

_list_to_path(chunks, ns) ==
    join(<<"/">>, [i \in 1..Len(chunks) |-> <<"{">> \o ns \o <<"}">> \o chunks[i]])

\* a prefix made of the last chunk only
last_chunk_as_prefix(chunks, sep) == IF Len(chunks) > 0 THEN Some(chunks[Len(chunks)]) ELSE None

_list_to_prefix(chunks, sep) == IF Len(chunks) > 0 THEN Some(join(sep, chunks)) ELSE None

\* ElementTree's match of one path step "{ns}name" against an element's tag:
\* "{*}name" is name in any namespace or in none, "{}name" is name in no namespace
StepMatches(step, tag) ==
    LET ns == SubSeq(step, 2, FirstIndex(step, "}") - 1)
        name == SubSeq(step, FirstIndex(step, "}") + 1, Len(step))
    IN  IF ns = <<"*">> THEN rpartition(tag, "}")[3] = name
        ELSE IF ns = <<>> THEN tag = name
        ELSE tag = step

\* the nodes the steps from index i on select below the nodes of from_, in document order
RECURSIVE Select(_, _, _)
Select(from_, steps, i) ==
    IF i > Len(steps) THEN from_
    ELSE LET ChildrenOf(n) == SelectSeq(n.children, LAMBDA c : StepMatches(steps[i], c.tag))
             Next_[k \in 0..Len(from_)] ==
                 IF k = 0 THEN <<>> ELSE Next_[k - 1] \o ChildrenOf(from_[k])
         IN  Select(Next_[Len(from_)], steps, i + 1)

\* Element.findall(path)
findall(node, path) == Select(<<node>>, split(path, "/"), 1)

\* a find that takes the last match
find_last(node, path) ==
    LET all == findall(node, path) IN IF all = <<>> THEN None ELSE Some(all[Len(all)])

\* Element.find(path): the first match, or None
find(node, path) ==
    LET all == findall(node, path) IN IF all = <<>> THEN None ELSE Some(all[1])

(* ------------------------------ parse --------------------------------- *)

\* lines 116-117
MetaPaths == IF cfg.meta_paths = None THEN <<>> ELSE Val(cfg.meta_paths)

\* lines 124, 140: the prefix of a path's fields
PrefixOf(path, on) == IF on THEN _list_to_prefix(path, cfg.sep) ELSE None

\* line 142, 158: dict(**d), a new dict with d's items
CopyDict(d) == DictOf(d)

NoError == [err |-> "none", common_keys |-> {}, index |-> None]

Raise(r) ==
    /\ pc' = "raised"
    /\ error' = [err |-> r.err, common_keys |-> r.common_keys, index |-> None]

\* lines 120-134: one round of the loop over meta_paths
MetaPath ==
    /\ pc = "meta"
    /\ mi <= Len(MetaPaths)
    /\ LET m_path == MetaPaths[mi]
           m_node == find(tree, _list_to_path(m_path, cfg.namespace))
       IN  IF m_node # None
           THEN LET r == _update_dict_from_node(meta_d, Val(m_node),
                            PrefixOf(m_path, cfg.meta_prefix), cfg.sep, cfg.meta_max_depth,
                            cfg.strip_text, cfg.remove_namespace, None)
                IN  /\ meta_d' = r.d
                    /\ IF r.err # "none"
                       THEN Raise(r) /\ UNCHANGED mi
                       ELSE mi' = mi + 1 /\ UNCHANGED <<pc, error>>
           ELSE mi' = mi + 1 /\ UNCHANGED <<meta_d, pc, error>>
    /\ UNCHANGED <<tree, cfg, row_nodes, ri, row_d, subrow_nodes, si, records, result,
                   v_records, expected_keys, vi, call, ret>>

\* lines 136-140: the row nodes are looked up once the metadata is read
FindRows ==
    /\ pc = "meta"
    /\ mi > Len(MetaPaths)
    /\ row_nodes' = findall(tree, _list_to_path(cfg.rows_path, cfg.namespace))
    /\ records' = <<>>
    /\ ri' = 1
    /\ pc' = "rows"
    /\ UNCHANGED <<tree, cfg, meta_d, mi, row_d, subrow_nodes, si, result, error,
                   v_records, expected_keys, vi, call, ret>>

\* line 137
SubrowsPath == _list_to_path(<<Val(cfg.subrow_tag)>>, cfg.namespace)

\* lines 141-156: one row node: its record, and with subrow_tag its subrow nodes
Row ==
    /\ pc = "rows"
    /\ ri <= Len(row_nodes)
    /\ LET r_node == row_nodes[ri]
           r == _update_dict_from_node(CopyDict(meta_d), r_node,
                    PrefixOf(cfg.rows_path, cfg.rows_prefix), cfg.sep, cfg.rows_max_depth,
                    cfg.strip_text, cfg.remove_namespace, cfg.subrow_tag)
       IN  /\ row_d' = r.d
           /\ IF r.err # "none"
              THEN Raise(r) /\ UNCHANGED <<ri, records, subrow_nodes, si>>
              ELSE IF cfg.subrow_tag = None
              THEN /\ records' = Append(records, r.d)
                   /\ ri' = ri + 1
                   /\ UNCHANGED <<pc, error, subrow_nodes, si>>
              ELSE LET nodes == findall(r_node, SubrowsPath)
                   IN  /\ subrow_nodes' = nodes
                       /\ si' = 1
                       /\ IF nodes = <<>>
                          THEN ri' = ri + 1 /\ UNCHANGED pc
                          ELSE pc' = "subrows" /\ UNCHANGED ri
                       /\ UNCHANGED <<records, error>>
    /\ UNCHANGED <<tree, cfg, meta_d, mi, row_nodes, result, v_records, expected_keys, vi, call, ret>>

\* lines 157-169: one subrow node of the current row; after the last, the next row
Subrow ==
    /\ pc = "subrows"
    /\ si <= Len(subrow_nodes)
    /\ LET sr_node == subrow_nodes[si]
           r == _update_dict_from_node(CopyDict(row_d), sr_node,
                    PrefixOf(cfg.rows_path, cfg.rows_prefix), cfg.sep, cfg.rows_max_depth,
                    cfg.strip_text, cfg.remove_namespace, None)
       IN  IF r.err # "none"
           THEN Raise(r) /\ UNCHANGED <<records, si, ri>>
           ELSE /\ records' = Append(records, r.d)
                /\ si' = si + 1
                /\ IF si = Len(subrow_nodes)
                   THEN pc' = "rows" /\ ri' = ri + 1
                   ELSE UNCHANGED <<pc, ri>>
                /\ UNCHANGED error
    /\ UNCHANGED <<tree, cfg, meta_d, mi, row_nodes, row_d, subrow_nodes, result,
                   v_records, expected_keys, vi, call, ret>>

\* line 170
Return ==
    /\ pc = "rows"
    /\ ri > Len(row_nodes)
    /\ result' = Some(records)
    /\ pc' = "done"
    /\ UNCHANGED <<tree, cfg, meta_d, mi, row_nodes, ri, row_d, subrow_nodes, si, records,
                   error, v_records, expected_keys, vi, call, ret>>

(* ----------------------------- validate ------------------------------- *)

\* the caller hands the records parse returned to validate, with the first record's keys
ValidateCall ==
    /\ pc = "done"
    /\ Val(result) # <<>>
    /\ v_records' = Val(result)
    /\ expected_keys' = keys(Val(result)[1])
    /\ vi' = 1
    /\ pc' = "validate"
    /\ UNCHANGED <<tree, cfg, meta_d, mi, row_nodes, ri, row_d, subrow_nodes, si, records,
                   result, error, call, ret>>

\* a comparison that overlooks the order of the keys
KeySetsDiffer(r, expected) == KeySet(r) # {expected[i] : i \in 1..Len(expected)}

\* line 183: list(r.keys()) != expected_keys
KeysDiffer(r, expected) == keys(r) # expected

\* lines 182-184: one round of the loop over the records (vi is i + 1)
ValidateRecord ==
    /\ pc = "validate"
    /\ vi <= Len(v_records)
    /\ IF KeysDiffer(v_records[vi], expected_keys)
       THEN /\ pc' = "v_raised"
            /\ error' = [err |-> "XMLValidationError", common_keys |-> {}, index |-> Some(vi - 1)]
            /\ UNCHANGED vi
       ELSE /\ vi' = vi + 1
            /\ UNCHANGED <<pc, error>>
    /\ UNCHANGED <<tree, cfg, meta_d, mi, row_nodes, ri, row_d, subrow_nodes, si, records,
                   result, v_records, expected_keys, call, ret>>

\* the loop ends and validate returns
ValidateReturn ==
    /\ pc = "validate"
    /\ vi > Len(v_records)
    /\ pc' = "v_done"
    /\ UNCHANGED <<tree, cfg, meta_d, mi, row_nodes, ri, row_d, subrow_nodes, si, records,
                   result, error, v_records, expected_keys, vi, call, ret>>

(* ------------------------ calls of the helpers ------------------------ *)

\* a call of _update_dict_from_node with the arguments of call
FlattenCall ==
    /\ pc = "flatten"
    /\ ret' = _update_dict_from_node(call.d, call.node, call.prefix, call.sep, call.max_depth,
                                     call.strip, call.rm_namespace, call.skip_child_tag)
    /\ pc' = "flattened"
    /\ UNCHANGED <<tree, cfg, meta_d, mi, row_nodes, ri, row_d, subrow_nodes, si, records,
                   result, error, v_records, expected_keys, vi, call>>

\* a call of _update_dict_nocollision with the arguments of call
MergeCall ==
    /\ pc = "merge"
    /\ ret' = _update_dict_nocollision(call.d1, call.d2)
    /\ pc' = "merged"
    /\ UNCHANGED <<tree, cfg, meta_d, mi, row_nodes, ri, row_d, subrow_nodes, si, records,
                   result, error, v_records, expected_keys, vi, call>>

(* ------------------------------ inputs -------------------------------- *)

\* an Element
N(tag, text, attrib, children) == [tag |-> tag, text |-> text, attrib |-> attrib, children |-> children]

\* a one-character str, and a tag in the namespace "n"
C(c) == <<c>>
Q(local) == <<"{", "n", "}">> \o local

\* the sequences over S of length at most n
SeqUpTo(S, n) == UNION {[1..k -> S] : k \in 0..n}

MaxRows == 2

\* the metadata node every document starts with: <m><v>3</v></m>
MetaNode == N(C("m"), None, <<>>, <<N(C("v"), Some(C("3")), <<>>, <<>>)>>)

\* the row nodes of the documents
RowPool ==
    { \* <r x="1" y="2"><a>3</a><b>4</b></r>
      N(C("r"), None, <<<<C("x"), C("1")>>, <<C("y"), C("2")>>>>,
        <<N(C("a"), Some(C("3")), <<>>, <<>>), N(C("b"), Some(C("4")), <<>>, <<>>)>>),
      \* the same fields in another order: <r y="2" x="1"><b>4</b><a>3</a></r>
      N(C("r"), None, <<<<C("y"), C("2")>>, <<C("x"), C("1")>>>>,
        <<N(C("b"), Some(C("4")), <<>>, <<>>), N(C("a"), Some(C("3")), <<>>, <<>>)>>),
      \* subrows before and after another child: <r> t <l>5</l><a>3</a><l z="6"/></r>
      N(C("r"), Some(<<" ", "t", " ">>), <<>>,
        <<N(C("l"), Some(C("5")), <<>>, <<>>), N(C("a"), Some(C("3")), <<>>, <<>>),
          N(C("l"), None, <<<<C("z"), C("6")>>>>, <<>>)>>),
      \* two subrows of the same structure: <r><l>5</l><l>7</l><a>3</a></r>
      N(C("r"), None, <<>>,
        <<N(C("l"), Some(C("5")), <<>>, <<>>), N(C("l"), Some(C("7")), <<>>, <<>>),
          N(C("a"), Some(C("3")), <<>>, <<>>)>>),
      \* a grandchild with the subrow's tag, a subrow with a child:
      \* <r><a><l>8</l></a><l z="9"><b>4</b></l></r>
      N(C("r"), None, <<>>,
        <<N(C("a"), None, <<>>, <<N(C("l"), Some(C("8")), <<>>, <<>>)>>),
          N(C("l"), None, <<<<C("z"), C("9")>>>>, <<N(C("b"), Some(C("4")), <<>>, <<>>)>>)>>),
      \* in a namespace: <n:r x="1"><n:l>5</n:l><n:l z="6"/></n:r>
      N(Q(C("r")), None, <<<<C("x"), C("1")>>>>,
        <<N(Q(C("l")), Some(C("5")), <<>>, <<>>),
          N(Q(C("l")), None, <<<<C("z"), C("6")>>>>, <<>>)>>),
      \* two children with one tag: <r><a>3</a><a>4</a></r>
      N(C("r"), None, <<>>,
        <<N(C("a"), Some(C("3")), <<>>, <<>>), N(C("a"), Some(C("4")), <<>>, <<>>)>>),
      \* an attribute named as the metadata field: <r v="1"/>
      N(C("r"), None, <<<<C("v"), C("1")>>>>, <<>>) }

\* the documents: a root with the metadata node and up to MaxRows row nodes
Documents == {N(C("d"), None, <<>>, <<MetaNode>> \o rows) : rows \in SeqUpTo(RowPool, MaxRows)}

Depths == {None, Some(0), Some(1)}

\* the arguments of parse other than xml
Configs ==
    [rows_path : {<<C("r")>>},
     subrow_tag : {None, Some(C("l"))},
     meta_paths : {None, Some(<<<<C("m")>>>>)},
     rows_prefix : BOOLEAN,
     meta_prefix : {FALSE},
     sep : {C("_")},
     rows_max_depth : Depths,
     meta_max_depth : {None},
     strip_text : BOOLEAN,
     namespace : {C("*"), C("n")},
     remove_namespace : BOOLEAN]

MaxMetaNodes == 2
MaxMetaPaths == 2

\* metadata nodes: <m x="1"><v>3</v></m>, <m><v>9</v></m>, <n:k><n:v>4</n:v></n:k>
MetaPool ==
    { N(C("m"), None, <<<<C("x"), C("1")>>>>, <<N(C("v"), Some(C("3")), <<>>, <<>>)>>),
      N(C("m"), None, <<>>, <<N(C("v"), Some(C("9")), <<>>, <<>>)>>),
      N(Q(C("k")), None, <<>>, <<N(Q(C("v")), Some(C("4")), <<>>, <<>>)>>) }

\* the rows of the documents with metadata: <r>1</r>, <r><l>5</l><l z="7"/></r>, <r v="2"/>
MetaRows ==
    << N(C("r"), Some(C("1")), <<>>, <<>>),
       N(C("r"), None, <<>>,
         <<N(C("l"), Some(C("5")), <<>>, <<>>), N(C("l"), None, <<<<C("z"), C("7")>>>>, <<>>)>>),
       N(C("r"), None, <<<<C("v"), C("2")>>>>, <<>>) >>

\* the documents with up to MaxMetaNodes metadata nodes before the rows
MetaDocuments ==
    {N(C("d"), None, <<>>, metas \o MetaRows) : metas \in SeqUpTo(MetaPool, MaxMetaNodes)}

\* the paths to the metadata: m, k, m/v, k/v
MetaPathPool == {<<C("m")>>, <<C("k")>>, <<C("m"), C("v")>>, <<C("k"), C("v")>>}

MetaConfigs ==
    [rows_path : {<<C("r")>>},
     subrow_tag : {None, Some(C("l"))},
     meta_paths : {None} \cup {Some(ps) : ps \in SeqUpTo(MetaPathPool, MaxMetaPaths)},
     rows_prefix : {FALSE},
     meta_prefix : BOOLEAN,
     sep : {C("_")},
     rows_max_depth : {None},
     meta_max_depth : {None, Some(0)},
     strip_text : {TRUE},
     namespace : {C("*"), C("n")},
     remove_namespace : BOOLEAN]

\* line 114 has parsed xml into tree; lines 119 and 139 bind meta_d and records
InitParse(docs, configs) ==
    /\ tree \in docs
    /\ cfg \in configs
    /\ pc = "meta"
    /\ meta_d = <<>>
    /\ mi = 1
    /\ row_nodes = <<>>
    /\ ri = 1
    /\ row_d = <<>>
    /\ subrow_nodes = <<>>
    /\ si = 1
    /\ records = <<>>
    /\ result = None
    /\ error = NoError
    /\ v_records = <<>>
    /\ expected_keys = <<>>
    /\ vi = 1
    /\ call = None
    /\ ret = None

Init == InitParse(Documents, Configs)

Next == MetaPath \/ FindRows \/ Row \/ Subrow \/ Return \/ ValidateCall \/ ValidateRecord \/ ValidateReturn

Spec == Init /\ [][Next]_vars

\* parse on the documents with metadata
InitMeta == InitParse(MetaDocuments, MetaConfigs)
NextMeta == MetaPath \/ FindRows \/ Row \/ Subrow \/ Return
SpecMeta == InitMeta /\ [][NextMeta]_vars

\* the variables of parse before any call of it
ParseIdle ==
    /\ tree = N(C("d"), None, <<>>, <<>>)
    /\ cfg \in {c \in Configs : c.subrow_tag = None /\ c.meta_paths = None /\ ~c.rows_prefix
                                /\ c.rows_max_depth = None /\ c.strip_text
                                /\ c.namespace = C("*") /\ c.remove_namespace}
    /\ meta_d = <<>>
    /\ mi = 1
    /\ row_nodes = <<>>
    /\ ri = 1
    /\ row_d = <<>>
    /\ subrow_nodes = <<>>
    /\ si = 1
    /\ records = <<>>
    /\ result = None
    /\ error = NoError

MaxRecords == 3

\* records with the keys a and b
RecordPool ==
    { <<<<C("a"), C("1")>>, <<C("b"), C("2")>>>>,
      <<<<C("b"), C("2")>>, <<C("a"), C("1")>>>>,
      <<<<C("a"), C("3")>>, <<C("b"), C("4")>>>>,
      <<<<C("a"), C("1")>>>>,
      <<>> }

KeyLists == {<<C("a"), C("b")>>, <<C("b"), C("a")>>, <<C("a")>>, <<>>}

\* validate is called on any records with any expected keys
InitValidate ==
    /\ ParseIdle
    /\ pc = "validate"
    /\ v_records \in SeqUpTo(RecordPool, MaxRecords)
    /\ expected_keys \in KeyLists
    /\ vi = 1
    /\ call = None
    /\ ret = None

NextValidate == ValidateRecord \/ ValidateReturn

SpecValidate == InitValidate /\ [][NextValidate]_vars

MaxKids == 2
MaxDictLen == 2

\* the text of a node: none, plain, and with whitespace around it or alone
Texts == {None, Some(C("1")), Some(<<" ", "1", " ", "2", "\n">>), Some(<<"\n", " ">>)}

\* children: <b> 3</b>, <l y=" 4 "/>, <n:l>5</n:l>
KidPool ==
    { N(C("b"), Some(<<" ", "3">>), <<>>, <<>>),
      N(C("l"), None, <<<<C("y"), <<" ", "4", " ">>>>>>, <<>>),
      N(Q(C("l")), Some(C("5")), <<>>, <<>>) }

\* the nodes flattened: <a> or <n:a>, with a text, an attribute x=" 6 ", children
FlattenNodes ==
    {N(tag, text, attrib, kids) :
        tag \in {C("a"), Q(C("a"))}, text \in Texts,
        attrib \in {<<>>, <<<<C("x"), <<" ", "6", " ">>>>>>},
        kids \in SeqUpTo(KidPool, MaxKids)}

FlattenCalls ==
    [d : {<<>>, <<<<C("q"), C("0")>>>>},
     node : FlattenNodes,
     prefix : {None, Some(C("p"))},
     sep : {C("_")},
     max_depth : {None, Some(0)},
     strip : BOOLEAN,
     rm_namespace : BOOLEAN,
     skip_child_tag : {None, Some(C("l"))}]

\* the dicts with up to MaxDictLen of the keys a, b, c
Dicts ==
    {d \in SeqUpTo({C("a"), C("b"), C("c")} \X {C("1"), C("2")}, MaxDictLen) :
        \A i, j \in 1..Len(d) : d[i][1] = d[j][1] => i = j}

MergeCalls == [d1 : Dicts, d2 : Dicts]

\* one of the helpers is called on any arguments
InitHelpers ==
    /\ ParseIdle
    /\ v_records = <<>>
    /\ expected_keys = <<>>
    /\ vi = 1
    /\ ret = None
    /\ \/ pc = "flatten" /\ call \in FlattenCalls
       \/ pc = "merge" /\ call \in MergeCalls

NextHelpers == FlattenCall \/ MergeCall

SpecHelpers == InitHelpers /\ [][NextHelpers]_vars

(* ------------------- what the records are to hold --------------------- *)
(* The fields of a node as the documentation states them, written as the   *)
(* list of contributions <<key, value>> in document order, without any     *)
(* merging: a key may occur twice here, which is a collision.              *)

\* the tag without its namespace
LocalName(tag) == rpartition(tag, "}")[3]

\* the tag as it appears in keys
KeyTag(tag, o) == IF o.remove_namespace THEN LocalName(tag) ELSE tag

\* the text a node contributes (the empty str: none)
TextOf(node, o) ==
    IF node.text = None THEN <<>>
    ELSE IF o.strip_text THEN strip(Val(node.text)) ELSE Val(node.text)

\* the node's own text and attributes
OwnFields(node, prefix, o) ==
    (IF TextOf(node, o) = <<>> THEN <<>>
     ELSE <<<<IF prefix = None THEN KeyTag(node.tag, o) ELSE Val(prefix), TextOf(node, o)>>>>)
    \o [i \in 1..Len(node.attrib) |->
          <<IF prefix = None THEN node.attrib[i][1] ELSE Val(prefix) \o o.sep \o node.attrib[i][1],
            node.attrib[i][2]>>]

\* the fields of node and of its descendants down to max_depth levels; the children
\* tagged skip are left out: by their namespace-stripped tag (by_local), or by their
\* tag as it appears in keys
RECURSIVE Fields(_, _, _, _, _, _)
Fields(node, prefix, max_depth, skip, by_local, o) ==
    LET Skipped(c) == skip # None /\ (IF by_local THEN LocalName(c.tag) ELSE KeyTag(c.tag, o)) = Val(skip)
        Below(c) == IF Skipped(c) THEN <<>>
                    ELSE Fields(c,
                                IF prefix = None THEN None
                                ELSE Some(Val(prefix) \o o.sep \o KeyTag(c.tag, o)),
                                IF max_depth = None THEN None ELSE Some(Val(max_depth) - 1),
                                None, by_local, o)
        Kids[k \in 0..Len(node.children)] ==
            IF k = 0 THEN <<>> ELSE Kids[k - 1] \o Below(node.children[k])
    IN  OwnFields(node, prefix, o)
        \o (IF max_depth = None \/ Val(max_depth) > 0 THEN Kids[Len(node.children)] ELSE <<>>)

\* the node cut below depth levels
RECURSIVE Truncate(_, _)
Truncate(node, depth) ==
    IF depth = None THEN node
    ELSE [node EXCEPT !.children =
            IF Val(depth) = 0 THEN <<>>
            ELSE [i \in 1..Len(node.children) |-> Truncate(node.children[i], Some(Val(depth) - 1))]]

\* whether a path segment names the tag, in the namespace searched
Names(chunk, tag) ==
    IF cfg.namespace = <<"*">> THEN LocalName(tag) = chunk
    ELSE IF cfg.namespace = <<>> THEN tag = chunk
    ELSE tag = <<"{">> \o cfg.namespace \o <<"}">> \o chunk

\* the nodes a path leads to from node, in document order
RECURSIVE NodesAt(_, _)
NodesAt(node, chunks) ==
    IF chunks = <<>> THEN <<node>>
    ELSE LET At[k \in 0..Len(node.children)] ==
                 IF k = 0 THEN <<>>
                 ELSE At[k - 1] \o (IF Names(chunks[1], node.children[k].tag)
                                    THEN NodesAt(node.children[k], Tail(chunks)) ELSE <<>>)
         IN  At[Len(node.children)]

JoinedPrefix(path, on) == IF on /\ path # <<>> THEN Some(join(cfg.sep, path)) ELSE None

\* the metadata fields of path i: those of the first node the path leads to
MetaFieldsOf(i) ==
    LET nodes == NodesAt(tree, MetaPaths[i])
    IN  IF nodes = <<>> THEN <<>>
        ELSE Fields(nodes[1], JoinedPrefix(MetaPaths[i], cfg.meta_prefix), cfg.meta_max_depth,
                    None, FALSE, cfg)

\* the metadata fields, in the order of meta_paths
MetaFields ==
    LET M[k \in 0..Len(MetaPaths)] == IF k = 0 THEN <<>> ELSE M[k - 1] \o MetaFieldsOf(k)
    IN  M[Len(MetaPaths)]

RowNodes == NodesAt(tree, cfg.rows_path)
SubrowNodes(r_node) == NodesAt(r_node, <<Val(cfg.subrow_tag)>>)
RowsPrefix == JoinedPrefix(cfg.rows_path, cfg.rows_prefix)

\* the fields of a row without its subrows, and of a subrow: down to rows_max_depth
\* levels, or (cut) all the fields of the node cut below rows_max_depth levels
RowFields(r_node, cut, by_local) ==
    IF cut THEN Fields(Truncate(r_node, cfg.rows_max_depth), RowsPrefix, None, cfg.subrow_tag, by_local, cfg)
    ELSE Fields(r_node, RowsPrefix, cfg.rows_max_depth, cfg.subrow_tag, by_local, cfg)

SubrowFields(sr_node, cut) ==
    IF cut THEN Fields(Truncate(sr_node, cfg.rows_max_depth), RowsPrefix, None, None, FALSE, cfg)
    ELSE Fields(sr_node, RowsPrefix, cfg.rows_max_depth, None, FALSE, cfg)

\* the contributions to the records of one row: one list per record
RecordsOfRow(r_node, cut, by_local) ==
    IF cfg.subrow_tag = None THEN <<MetaFields \o RowFields(r_node, cut, by_local)>>
    ELSE [j \in 1..Len(SubrowNodes(r_node)) |->
            MetaFields \o RowFields(r_node, cut, by_local)
                       \o SubrowFields(SubrowNodes(r_node)[j], cut)]

\* the contributions to all records, rows outer, subrows inner
AllRecords(cut, by_local) ==
    LET A[k \in 0..Len(RowNodes)] ==
            IF k = 0 THEN <<>> ELSE A[k - 1] \o RecordsOfRow(RowNodes[k], cut, by_local)
    IN  A[Len(RowNodes)]

\* the records if only the row node's own text and attributes went into them
OwnRecords(with_subrow) ==
    LET Of(r_node) ==
            IF cfg.subrow_tag = None THEN <<MetaFields \o OwnFields(r_node, RowsPrefix, cfg)>>
            ELSE [j \in 1..Len(SubrowNodes(r_node)) |->
                    MetaFields \o OwnFields(r_node, RowsPrefix, cfg)
                    \o (IF with_subrow THEN OwnFields(SubrowNodes(r_node)[j], RowsPrefix, cfg)
                        ELSE <<>>)]
        A[k \in 0..Len(RowNodes)] == IF k = 0 THEN <<>> ELSE A[k - 1] \o Of(RowNodes[k])
    IN  A[Len(RowNodes)]

\* no key twice
NoDup(items) == \A i, j \in 1..Len(items) : items[i][1] = items[j][1] => i = j

\* some merge step of the call meets a key its record already holds: within the
\* metadata, in a row on top of the metadata, or in a subrow on top of its row
Collides ==
    \/ ~NoDup(MetaFields)
    \/ \E k \in 1..Len(RowNodes) :
          \/ ~NoDup(MetaFields \o RowFields(RowNodes[k], FALSE, FALSE))
          \/ /\ cfg.subrow_tag # None
             /\ \E j \in 1..Len(SubrowNodes(RowNodes[k])) :
                   ~NoDup(RecordsOfRow(RowNodes[k], FALSE, FALSE)[j])

Returned == result # None

\* parse has just returned
ParseReturns == pc = "done"

(* ------------------------------ claims -------------------------------- *)

\* C1: parse is all-or-nothing on key collisions. A call in which some merge step
\* meets a key already held never returns anything, and a call raises only then,
\* with XMLParsingError; when parse returns, every record is exactly the list of
\* the contributions merged into it, one entry for each, none overwritten.
C1_AllOrNothing ==
    /\ Returned <=> pc \in {"done", "validate", "v_done", "v_raised"}
    /\ pc = "raised" => Collides /\ error.err = "XMLParsingError"
    /\ ParseReturns => /\ ~Collides
                       /\ Val(result) = AllRecords(FALSE, FALSE)
                       /\ \A i \in 1..Len(Val(result)) : NoDup(Val(result)[i])

\* a later row collides after an earlier row was flattened into a record
C1_Witness == pc = "raised" /\ ri = 2 /\ records # <<>> /\ mi > Len(MetaPaths)

\* C2: with subrow_tag, one record per row and matching child, rows outer and
\* subrows inner, each holding the metadata, the fields of its row (without any
\* subrow child) and those of its own subrow; without subrow_tag one per row.
C2_SubrowExpansion ==
    ParseReturns => Val(result) = AllRecords(FALSE, TRUE)

\* C5 as stated: with rows_max_depth = 0 the entries of a record other than the
\* metadata are the row node's own text and attributes only; and in general the
\* entries are those of the nodes at most rows_max_depth levels below.
C5_RowOwnFieldsOnly ==
    ParseReturns => /\ cfg.rows_max_depth = Some(0) => Val(result) = OwnRecords(FALSE)
                /\ Val(result) = AllRecords(TRUE, FALSE)

\* C5, amended: with rows_max_depth = 0 the entries other than the metadata are the
\* row node's own text and attributes, then with subrow_tag the subrow node's own
\* text and attributes; in general the entries of a row or subrow are those of the
\* node cut below rows_max_depth levels (no cut when it is None).
C5_DepthLimit ==
    ParseReturns => /\ cfg.rows_max_depth = Some(0) => Val(result) = OwnRecords(TRUE)
                /\ Val(result) = AllRecords(TRUE, FALSE)

\* parse has returned the record of a subrow with fields of its own, at depth 0
C5_Witness ==
    /\ ParseReturns
    /\ cfg.rows_max_depth = Some(0)
    /\ cfg.subrow_tag # None
    /\ \E k \in 1..Len(RowNodes) :
          /\ RowNodes[k].children # <<>>
          /\ \E j \in 1..Len(SubrowNodes(RowNodes[k])) :
                OwnFields(SubrowNodes(RowNodes[k])[j], RowsPrefix, cfg) # <<>>

\* C9: with subrow_tag, the record of a row before its subrows are merged in holds
\* the metadata and the row's fields without those of any immediate child whose
\* namespace-stripped tag is subrow_tag, whatever remove_namespace is; deeper
\* descendants with that tag are not left out.
C9_SubrowChildrenSkipped ==
    pc = "subrows" => row_d = meta_d \o RowFields(row_nodes[ri], FALSE, TRUE)

\* the key sequences of the records as the documentation orders them
KeyOrder == [i \in 1..Len(AllRecords(FALSE, TRUE)) |-> keys(AllRecords(FALSE, TRUE)[i])]

\* C10: the keys of a record are the metadata keys, then the row's keys (own text,
\* attributes, the children that are no subrows in document order), then the
\* subrow's keys; so validate against the first record's keys raises only when
\* some record comes from another structure than the first.
C10_KeyOrder ==
    /\ ParseReturns => [i \in 1..Len(Val(result)) |-> keys(Val(result)[i])] = KeyOrder
    /\ pc = "v_raised" => KeyOrder[vi] # KeyOrder[1]
    /\ pc = "v_done" => \A i \in 1..Len(KeyOrder) : KeyOrder[i] = KeyOrder[1]

\* the loop over meta_paths has ended without an exception
MetaRead == mi > Len(MetaPaths)

\* C3: the metadata record holds the fields of the first node of each meta path (a
\* path that leads to no node adds nothing and raises nothing: reading the metadata
\* raises only on a collision); it stays as it is while the rows are read, and every
\* record built holds every entry of it.
C3_MetadataBroadcast ==
    /\ (pc = "raised" /\ ~MetaRead) => ~NoDup(MetaFields)
    /\ MetaRead =>
          /\ meta_d = MetaFields
          /\ \A i \in 1..Len(records) : \A j \in 1..Len(meta_d) :
                \E k \in 1..Len(records[i]) : records[i][k] = meta_d[j]
          /\ Returned => Val(result) = records

\* three records with the metadata of two paths, one of which leads to no node and
\* the other to the first of two nodes
C3_Witness ==
    /\ Returned
    /\ Len(Val(result)) = 3
    /\ meta_d # <<>>
    /\ \E i, j \in 1..Len(MetaPaths) :
          /\ NodesAt(tree, MetaPaths[i]) = <<>>
          /\ Len(NodesAt(tree, MetaPaths[j])) = 2
          /\ NodesAt(tree, MetaPaths[j])[1] # NodesAt(tree, MetaPaths[j])[2]

\* the field names of the node meta path i leads to (no prefix)
FieldNamesOf(i) ==
    LET nodes == NodesAt(tree, MetaPaths[i])
    IN  IF nodes = <<>> THEN {}
        ELSE KeySet(Fields(nodes[1], None, cfg.meta_max_depth, None, FALSE, cfg))

\* two different meta paths lead to nodes that share a field name
SharedFieldName ==
    \E i, j \in 1..Len(MetaPaths) :
        i < j /\ MetaPaths[i] # MetaPaths[j] /\ FieldNamesOf(i) \cap FieldNamesOf(j) # {}

\* path p is path q or the beginning of it
Begins(p, q) == Len(p) <= Len(q) /\ SubSeq(q, 1, Len(p)) = p

\* no meta path that leads to a node is another one, or the beginning of another one
PathsApart ==
    \A i, j \in 1..Len(MetaPaths) :
        (i # j /\ FieldNamesOf(i) # {} /\ FieldNamesOf(j) # {})
            => ~Begins(MetaPaths[i], MetaPaths[j])

FirstMismatch ==
    LET I == {i \in 1..Len(v_records) : keys(v_records[i]) # expected_keys}
    IN  IF I = {} THEN None ELSE Some((CHOOSE i \in I : \A j \in I : i <= j) - 1)

\* C6: validate raises XMLValidationError exactly when the keys of some record, in
\* order, are not expected_keys, and names the lowest index of such a record; with
\* the keys of the first record expected it returns exactly when all records have
\* those keys in that order.
C6_Validate ==
    /\ pc = "v_raised" => /\ FirstMismatch # None
                          /\ error.err = "XMLValidationError"
                          /\ error.index = FirstMismatch
    /\ pc = "v_done" => FirstMismatch = None
    /\ (pc \in {"v_done", "v_raised"} /\ v_records # <<>> /\ expected_keys = keys(v_records[1]))
           => (pc = "v_done" <=> \A i \in 1..Len(v_records) : keys(v_records[i]) = keys(v_records[1]))

\* validate has raised on a later record with the first record's keys in another order
C6_Witness ==
    /\ pc = "v_raised"
    /\ Val(error.index) >= 1
    /\ expected_keys = keys(v_records[1])
    /\ KeySet(v_records[vi]) = KeySet(v_records[1])
    /\ Len(v_records[vi]) = Len(v_records[1])

\* s without its leading and trailing whitespace
Trim(s) ==
    LET I == {i \in 1..Len(s) : s[i] \notin Whitespace}
    IN  IF I = {} THEN <<>>
        ELSE SubSeq(s, CHOOSE i \in I : \A j \in I : i <= j, CHOOSE i \in I : \A j \in I : j <= i)

\* the entry a call is to make for the node's text, if any
TextEntryOf(c) ==
    LET t == IF c.node.text = None THEN <<>>
             ELSE IF c.strip THEN Trim(Val(c.node.text)) ELSE Val(c.node.text)
        k == IF c.prefix # None THEN Val(c.prefix)
             ELSE IF c.rm_namespace THEN LocalName(c.node.tag) ELSE c.node.tag
    IN  IF t = <<>> THEN <<>> ELSE <<<<k, t>>>>

\* the entries a call is to make for the node's attributes: the values as they are
AttribEntriesOf(c) ==
    [i \in 1..Len(c.node.attrib) |->
        <<IF c.prefix = None THEN c.node.attrib[i][1]
          ELSE Val(c.prefix) \o c.sep \o c.node.attrib[i][1],
          c.node.attrib[i][2]>>]

\* C7: with strip the text of the node is entered without its leading and trailing
\* whitespace, and not at all when nothing is left or the node has no text; without
\* strip it is entered as it is; the attribute values are entered as they are.
C7_Whitespace ==
    pc = "flattened" =>
        LET head == call.d \o TextEntryOf(call) \o AttribEntriesOf(call)
        IN  /\ Len(ret.d) >= Len(head)
            /\ SubSeq(ret.d, 1, Len(head)) = head

\* a text with whitespace around it was entered stripped, beside an attribute value
\* with whitespace around it
C7_Witness ==
    /\ pc = "flattened"
    /\ ret.err = "none"
    /\ call.strip
    /\ call.node.text = Some(<<" ", "1", " ", "2", "\n">>)
    /\ call.node.attrib # <<>>
    /\ \E i \in 1..Len(ret.d) : ret.d[i][2] = <<"1", " ", "2">>

\* C8: _update_dict_nocollision raises exactly when some key is in both dicts before
\* the merge, and the error carries exactly the keys that were in both.
C8_OffendingKeys ==
    pc = "merged" =>
        /\ ret.err = "XMLParsingError" <=> KeySet(call.d1) \cap KeySet(call.d2) # {}
        /\ ret.err = "XMLParsingError" => ret.common_keys = KeySet(call.d1) \cap KeySet(call.d2)

====
